---- MODULE Spec2Model ----
(***************************************************************************)
(* cloud-carbon: estimation of the carbon emissions of AWS EC2 usage.      *)
(*                                                                         *)
(* The module models package footprint (the two reference tables, the four *)
(* lookups and AWS) and the analyse command (the row loop over the usage   *)
(* report, the report phase, the two sort passes and formatGrams).         *)
(*                                                                         *)
(* Conventions of the model:                                               *)
(*  - a Go string is a sequence of lexemes (a lexeme is a TLA+ string that *)
(*    stands for a run of characters); concatenation, Split and HasPrefix  *)
(*    work on these sequences, so that "a_b" + "_" + "c" and               *)
(*    "a" + "_" + "b_c" are the same string, as in Go;                     *)
(*  - a float64 is an exact rational [num, den] in lowest terms (rounding  *)
(*    of the binary representation is not modelled);                       *)
(*  - a time.Time is a number of minutes since the zero Time, and a        *)
(*    time.Duration is a signed two's-complement count of minutes of       *)
(*    DurBits bits (int64 nanoseconds in Go).                              *)
(***************************************************************************)
EXTENDS Integers, Sequences, FiniteSets, TLC

VARIABLES
    ec2instances,        \* footprint.ec2instances: instance type -> EC2Instance
    awsRegions,          \* footprint.awsRegions: region code -> AWSRegion
    call,                \* the call of a footprint function or of formatGrams being made
    ret,                 \* what that call returned
    pc,                  \* where analyse is: "reading", "done", "panic"; "idle" outside analyse
    processedHeaders,    \* analyse: processedHeaders
    headers,             \* cmd.headers: header name -> column index
    lineCount,           \* analyse: lineCount
    earliestDate,        \* analyse: earliestDate
    latestDate,          \* analyse: latestDate
    aggregate,           \* analyse: aggregate, key -> AggregateReportRow
    records,             \* the records fcsv.Read has returned so far, in order
    readErr,             \* whether fcsv.Read returned an error other than io.EOF
    aggregateReportRows, \* analyse: aggregateReportRows after the two sort passes
    total,               \* analyse: total
    table                \* what was handed to the table: its rows and its footer

vars == <<ec2instances, awsRegions, call, ret, pc, processedHeaders, headers,
          lineCount, earliestDate, latestDate, aggregate, records, readErr,
          aggregateReportRows, total, table>>

----------------------------------------------------------------------------
(* Bounds of the model.                                                    *)

\* The width of a time.Duration in the model (64 in Go).
DurBits == 10

\* The largest number of records (header included) one report holds.
MaxRows == 3

----------------------------------------------------------------------------
(* Strings.                                                                *)

\* The string that is the one lexeme x.
S(x) == <<x>>

\* strings.HasPrefix(s, prefix)
HasPrefix(s, prefix) ==
    /\ Len(s) >= Len(prefix)
    /\ SubSeq(s, 1, Len(prefix)) = prefix

\* strings.Split(s, sep), for a separator that is one lexeme: the pieces of s
\* between the occurrences of sep, Len = number of occurrences + 1.
RECURSIVE Split(_, _)
Split(s, sep) ==
    IF \A i \in 1..Len(s) : s[i] # sep
    THEN <<s>>
    ELSE LET i == CHOOSE k \in 1..Len(s) :
                     s[k] = sep /\ \A j \in 1..(k - 1) : s[j] # sep
         IN  <<SubSeq(s, 1, i - 1)>> \o Split(SubSeq(s, i + 1, Len(s)), sep)

\* The lexemes of the model in the byte order Go's < on strings gives them.
\* No lexeme is a prefix of another, so comparing two strings lexeme by
\* lexeme is comparing them byte by byte.
LexemeOrder ==
    << "/", "0000-00-00T00:00:00Z", "0001-01-01T00:00:00Z", "123456789012",
       "2022-08-01T00:00:00Z", "2022-08-01T01:00:00Z", "2022-08-01T02:30:00Z",
       "2100-12-31T23:59:59Z", "2101-01-01T00:00:00Z", "2101-01-01T01:00:00Z",
       ":0002", "AmazonEC2", "AmazonS3", "Compute Instance", "CreateVolume",
       "RunInstances", "Stop", "Storage", "Tax", "Usage",
       "_", "a1.medium", "ab", "bill/PayerAccountId", "cd", "ef",
       "eu-central-1", "eu-west-1", "garbage",
       "identity/TimeInterval", "lineItem/LineItemType", "lineItem/Operation",
       "lineItem/ProductCode", "lineItem/UsageAccountId",
       "lineItem/UsageEndDate", "lineItem/UsageStartDate",
       "product/instanceType", "product/productFamily", "product/regionCode",
       "t2.micro", "unknown", "xx-nowhere-9", "z9.huge" >>

LexemeRank(x) == CHOOSE i \in 1..Len(LexemeOrder) : LexemeOrder[i] = x

\* s < t on Go strings.
RECURSIVE StrLess(_, _)
StrLess(s, t) ==
    IF t = <<>> THEN FALSE
    ELSE IF s = <<>> THEN TRUE
    ELSE IF s[1] = t[1] THEN StrLess(Tail(s), Tail(t))
    ELSE LexemeRank(s[1]) < LexemeRank(t[1])

----------------------------------------------------------------------------
(* float64 as exact rationals.                                             *)

Abs(n) == IF n < 0 THEN -n ELSE n

RECURSIVE GCD(_, _)
GCD(a, b) == IF b = 0 THEN a ELSE GCD(b, a % b)

\* n/d in lowest terms, d > 0.
Rat(n, d) ==
    LET g == GCD(Abs(n), d)
    IN  [num |-> n \div g, den |-> d \div g]

Zero == Rat(0, 1)

RatAdd(a, b) ==
    LET g == GCD(a.den, b.den)
    IN  Rat(a.num * (b.den \div g) + b.num * (a.den \div g), a.den * (b.den \div g))

RatMul(a, b) ==
    LET g1 == GCD(Abs(a.num), b.den)
        g2 == GCD(Abs(b.num), a.den)
    IN  Rat((a.num \div g1) * (b.num \div g2), (a.den \div g2) * (b.den \div g1))

\* a / k for an integer k > 0.
RatDivInt(a, k) == RatMul(a, Rat(1, k))

\* a > k for an integer k, without forming k * a.den.
RatGreaterInt(a, k) ==
    \/ a.num \div a.den > k
    \/ (a.num \div a.den = k /\ a.num % a.den > 0)

----------------------------------------------------------------------------
(* Package footprint: the reference tables.                                *)

\* A decimal number as it stands in a CSV field: <<whole>> or <<whole, tenth>>.
\* strconv.ParseFloat on it; any other field does not parse.
IsNumber(f) ==
    /\ Len(f) \in {1, 2}
    /\ \A i \in 1..Len(f) : f[i] \in Nat
    /\ Len(f) = 2 => f[2] \in 0..9

ParseFloat(f) ==
    IF ~IsNumber(f) THEN [val |-> Zero, err |-> "invalid syntax"]
    ELSE IF Len(f) = 1 THEN [val |-> Rat(f[1], 1), err |-> "nil"]
    ELSE [val |-> Rat(f[1] * 10 + f[2], 10), err |-> "nil"]

\* One record of aws-ec2-instances.csv: Go indexes from 0, so record[0],
\* record[29] and record[36] are fields 1, 30 and 37 here.
InstanceRecord(name, power, manuf) ==
    [i \in 1..37 |-> IF i = 1 THEN name
                     ELSE IF i = 30 THEN power
                     ELSE IF i = 37 THEN manuf
                     ELSE S("")]

\* One record of aws-regions.csv: record[0], record[4] and record[6].
RegionRecord(code, ci, pue) ==
    [i \in 1..7 |-> IF i = 1 THEN code
                    ELSE IF i = 5 THEN ci
                    ELSE IF i = 7 THEN pue
                    ELSE S("")]

\* The embedded instance table: its header row and the entries the tests name.
ec2instancesCSV ==
    << InstanceRecord(S("Instance type"), S("Instance @ 50%"), S("Instance Hourly Manufacturing Emissions")),
       InstanceRecord(S("t2.micro"), <<4, 9>>, <<0, 9>>),
       InstanceRecord(S("a1.medium"), <<3, 2>>, <<1, 8>>) >>

\* The embedded region table: its header row and the entries the tests name.
awsRegionsCSV ==
    << RegionRecord(S("Region"), S("CO2e (metric gram/kWh)"), S("PUE")),
       RegionRecord(S("eu-west-1"), <<316>>, <<1, 2>>),
       RegionRecord(S("eu-central-1"), <<338>>, <<1, 2>>),
       RegionRecord(S("ap-southeast-2"), <<790>>, <<1, 2>>) >>

\* The map m with m[k] = v added or replaced.
MapPut(m, k, v) ==
    [x \in DOMAIN m \cup {k} |-> IF x = k THEN v ELSE m[x]]

EmptyMap == [x \in {} |-> 0]

\* readEC2Instances: the loop over the records from record n on, with the map
\* built so far; [m, err].
RECURSIVE readEC2InstancesFrom(_, _, _)
readEC2InstancesFrom(csv, n, m) ==
    IF n > Len(csv) THEN [m |-> m, err |-> "nil"]
    ELSE IF n = 1 THEN readEC2InstancesFrom(csv, n + 1, m)
    ELSE LET power == ParseFloat(csv[n][30])
             manuf == ParseFloat(csv[n][37])
         IN  IF power.err # "nil" THEN [m |-> m, err |-> "error parsing as float"]
             ELSE IF manuf.err # "nil" THEN [m |-> m, err |-> "error parsing as float"]
             ELSE readEC2InstancesFrom(csv, n + 1,
                      MapPut(m, csv[n][1],
                             [PowerAt50Percent |-> power.val,
                              ManufacturingEmissionsHourly |-> manuf.val]))

readEC2Instances == readEC2InstancesFrom(ec2instancesCSV, 1, EmptyMap)

RECURSIVE readAWSRegionsFrom(_, _, _)
readAWSRegionsFrom(csv, n, m) ==
    IF n > Len(csv) THEN [m |-> m, err |-> "nil"]
    ELSE IF n = 1 THEN readAWSRegionsFrom(csv, n + 1, m)
    ELSE LET carbonIntensity == ParseFloat(csv[n][5])
             pue == ParseFloat(csv[n][7])
         IN  IF carbonIntensity.err # "nil"
             THEN [m |-> m, err |-> "error parsing carbon intensity as float"]
             ELSE IF pue.err # "nil" THEN [m |-> m, err |-> "error parsing PUE as float"]
             ELSE readAWSRegionsFrom(csv, n + 1,
                      MapPut(m, csv[n][1],
                             [CarbonIntensity |-> carbonIntensity.val, PUE |-> pue.val]))

readAWSRegions == readAWSRegionsFrom(awsRegionsCSV, 1, EmptyMap)

----------------------------------------------------------------------------
(* Package footprint: the lookups and AWS.                                 *)

PowerAt50Percent(ec2InstanceType) ==
    IF ec2InstanceType \notin DOMAIN ec2instances
    THEN [val |-> Zero, err |-> "unknown instance type"]
    ELSE [val |-> ec2instances[ec2InstanceType].PowerAt50Percent, err |-> "nil"]

ManufacturingEmissions(ec2InstanceType) ==
    IF ec2InstanceType \notin DOMAIN ec2instances
    THEN [val |-> Zero, err |-> "unknown instance type"]
    ELSE [val |-> ec2instances[ec2InstanceType].ManufacturingEmissionsHourly, err |-> "nil"]

CarbonIntensity(regionCode) ==
    IF regionCode \notin DOMAIN awsRegions
    THEN [val |-> Zero, err |-> "unknown AWS region code"]
    ELSE [val |-> awsRegions[regionCode].CarbonIntensity, err |-> "nil"]

PUE(regionCode) ==
    IF regionCode \notin DOMAIN awsRegions
    THEN [val |-> Zero, err |-> "unknown AWS region code"]
    ELSE [val |-> awsRegions[regionCode].PUE, err |-> "nil"]

\* time.Duration.Hours(): the duration in fractional hours.
MinutesPerHour == 60

Hours(duration) == Rat(duration, MinutesPerHour)

\* AWS with the PUE factor left out of the product.
AWSNoPUE(regionCode, instanceType, duration) ==
    IF PUE(regionCode).err # "nil" THEN [val |-> Zero, err |-> PUE(regionCode).err]
    ELSE IF PowerAt50Percent(instanceType).err # "nil"
    THEN [val |-> Zero, err |-> PowerAt50Percent(instanceType).err]
    ELSE [val |-> RatMul(RatAdd(RatMul(RatDivInt(PowerAt50Percent(instanceType).val, 1000),
                                       CarbonIntensity(regionCode).val),
                                ManufacturingEmissions(instanceType).val),
                         Hours(duration)),
          err |-> "nil"]

\* AWS without the check of the instance type's lookups: an unknown instance
\* type contributes the zero values the lookups return.
AWSNoInstanceCheck(regionCode, instanceType, duration) ==
    IF PUE(regionCode).err # "nil" THEN [val |-> Zero, err |-> PUE(regionCode).err]
    ELSE [val |-> RatMul(RatAdd(RatMul(RatMul(RatDivInt(PowerAt50Percent(instanceType).val, 1000),
                                              PUE(regionCode).val),
                                       CarbonIntensity(regionCode).val),
                                ManufacturingEmissions(instanceType).val),
                         Hours(duration)),
          err |-> "nil"]

AWS(regionCode, instanceType, duration) ==
    LET pue == PUE(regionCode)
        ci == CarbonIntensity(regionCode)
        power == PowerAt50Percent(instanceType)
        manufacturing == ManufacturingEmissions(instanceType)
    IN  IF pue.err # "nil" THEN [val |-> Zero, err |-> pue.err]
        ELSE IF ci.err # "nil" THEN [val |-> Zero, err |-> ci.err]
        ELSE IF power.err # "nil" THEN [val |-> Zero, err |-> power.err]
        ELSE IF manufacturing.err # "nil" THEN [val |-> Zero, err |-> manufacturing.err]
        ELSE LET powerKiloWatt == RatDivInt(power.val, 1000)
                 hours == Hours(duration)
             IN  [val |-> RatMul(RatAdd(RatMul(RatMul(powerKiloWatt, pue.val), ci.val),
                                        manufacturing.val),
                                 hours),
                  err |-> "nil"]

----------------------------------------------------------------------------
(* Package cmd: time.                                                      *)

MaxDuration == 2 ^ (DurBits - 1) - 1
MinDuration == -(2 ^ (DurBits - 1))

\* a + b on time.Duration, which wraps as int64 does.
DurationAdd(a, b) ==
    ((a + b - MinDuration) % (2 ^ DurBits)) + MinDuration

\* The zero time.Time, January 1 of year 1.
ZeroTime == 0

\* 2022-08-01T00:00:00Z in minutes since the zero Time: as in Go, further from
\* the zero Time than the largest Duration.
Epoch == 2 ^ (DurBits + 1)

\* The timestamps of the model that time.Parse(dateTimeLayout, s) accepts, with
\* their values. Every other string is a parse error ("0000-00-00T00:00:00Z"
\* has month 0 and day 0, which time.Parse rejects as out of range).
TimeOf ==
    [x \in {"0001-01-01T00:00:00Z", "2022-08-01T00:00:00Z", "2022-08-01T01:00:00Z", "2022-08-01T02:30:00Z",
            "2100-12-31T23:59:59Z", "2101-01-01T00:00:00Z",
            "2101-01-01T01:00:00Z"} |->
        CASE x = "0001-01-01T00:00:00Z" -> ZeroTime
          [] x = "2022-08-01T00:00:00Z" -> Epoch
          [] x = "2022-08-01T01:00:00Z" -> Epoch + 60
          [] x = "2022-08-01T02:30:00Z" -> Epoch + 150
          [] x = "2100-12-31T23:59:59Z" -> Epoch + 400
          [] x = "2101-01-01T00:00:00Z" -> Epoch + 401
          [] x = "2101-01-01T01:00:00Z" -> Epoch + 461]

\* time.Parse(dateTimeLayout, s): the zero Time comes with every error.
ParseTime(s) ==
    IF Len(s) = 1 /\ s[1] \in DOMAIN TimeOf
    THEN [t |-> TimeOf[s[1]], err |-> "nil"]
    ELSE [t |-> ZeroTime, err |-> "parsing time"]

mustParseDate(s) == ParseTime(s).t

\* t.Sub(u): t - u, or the largest (smallest) Duration when t - u is beyond it.
Sub(t, u) ==
    IF t - u > MaxDuration THEN MaxDuration
    ELSE IF t - u < MinDuration THEN MinDuration
    ELSE t - u

\* d.String(), to the minute: "0s", "30m0s", "1h30m0s", "-1h0m0s".
DurationString(d) ==
    LET u == Abs(d)
        sign == IF d < 0 THEN <<"-">> ELSE <<>>
    IN  IF u = 0 THEN <<"0s">>
        ELSE IF u < MinutesPerHour THEN sign \o <<ToString(u), "m0s">>
        ELSE sign \o <<ToString(u \div MinutesPerHour), "h",
                       ToString(u % MinutesPerHour), "m0s">>

----------------------------------------------------------------------------
(* Package cmd: formatGrams.                                               *)

\* n/d rounded to the nearest integer, ties to even, as fmt rounds.
RoundHalfEven(n, d) ==
    LET q == n \div d
        r == n % d
    IN  IF 2 * r < d THEN q
        ELSE IF 2 * r > d THEN q + 1
        ELSE IF q % 2 = 0 THEN q ELSE q + 1

\* fmt.Sprintf("%.0f", x)
Sprintf0(x) ==
    LET n == RoundHalfEven(Abs(x.num), x.den)
    IN  (IF x.num < 0 THEN <<"-">> ELSE <<>>) \o <<ToString(n)>>

\* fmt.Sprintf("%.1f", x / k) for an integer k > 0
Sprintf1(x, k) ==
    LET t == RoundHalfEven(Abs(x.num) * 10, x.den * k)
    IN  (IF x.num < 0 THEN <<"-">> ELSE <<>>)
            \o <<ToString(t \div 10), ".", ToString(t % 10)>>

\* a >= k for an integer k.
RatAtLeastInt(a, k) == a.num \div a.den >= k

\* formatGrams with the thresholds compared by >= instead of >.
formatGramsInclusive(g) ==
    IF RatAtLeastInt(g, 1000 * 1000)
    THEN Sprintf1(g, 1000 * 1000) \o <<" MTCO2e">>
    ELSE IF RatAtLeastInt(g, 1000)
    THEN Sprintf1(g, 1000) \o <<" kgCO2e">>
    ELSE Sprintf0(g) \o <<" gCO2e">>

formatGrams(g) ==
    IF RatGreaterInt(g, 1000 * 1000)
    THEN Sprintf1(g, 1000 * 1000) \o <<" MTCO2e">>
    ELSE IF RatGreaterInt(g, 1000)
    THEN Sprintf1(g, 1000) \o <<" kgCO2e">>
    ELSE Sprintf0(g) \o <<" gCO2e">>

----------------------------------------------------------------------------
(* Package cmd: the usage report and its rows.                             *)

headerIdentityTimeInterval == S("identity/TimeInterval")
headerBillPayerAccountID == S("bill/PayerAccountId")
headerLineItemUsageAccountID == S("lineItem/UsageAccountId")
headerLineItemLineItemType == S("lineItem/LineItemType")
headerLineItemUsageStartDate == S("lineItem/UsageStartDate")
headerLineItemUsageEndDate == S("lineItem/UsageEndDate")
headerLineItemProductCode == S("lineItem/ProductCode")
headerLineItemOperation == S("lineItem/Operation")
headerProductInstanceType == S("product/instanceType")
headerProductProductFamily == S("product/productFamily")
headerProductRegionCode == S("product/regionCode")

\* The header loop of analyse: headers[field] = index for every field of the
\* record, a later column replacing an earlier one of the same name. Indexes
\* are Go's, from 0.
BuildHeaders(csvRecord) ==
    [field \in {csvRecord[i] : i \in 1..Len(csvRecord)} |->
        (CHOOSE i \in 1..Len(csvRecord) :
            /\ csvRecord[i] = field
            /\ \A j \in (i + 1)..Len(csvRecord) : csvRecord[j] # field) - 1]

\* headers[name]: a Go map gives 0 for a name it does not hold.
HeaderIndex(h, name) == IF name \in DOMAIN h THEN h[name] ELSE 0

\* csvRecord[headers[name]]
Field(h, csvRecord, name) == csvRecord[HeaderIndex(h, name) + 1]

\* The filter of analyse with the product family test left out.
QualifiesNoFamily(h, csvRecord) ==
    /\ Field(h, csvRecord, headerLineItemLineItemType) = S("Usage")
    /\ Field(h, csvRecord, headerLineItemProductCode) = S("AmazonEC2")
    /\ HasPrefix(Field(h, csvRecord, headerLineItemOperation), S("RunInstances"))

\* The filter of analyse with its first test only.
QualifiesTypeOnly(h, csvRecord) ==
    Field(h, csvRecord, headerLineItemLineItemType) = S("Usage")

\* The filter of analyse: the record passes none of the four `continue`s.
Qualifies(h, csvRecord) ==
    /\ Field(h, csvRecord, headerLineItemLineItemType) = S("Usage")
    /\ Field(h, csvRecord, headerLineItemProductCode) = S("AmazonEC2")
    /\ Field(h, csvRecord, headerProductProductFamily) = S("Compute Instance")
    /\ HasPrefix(Field(h, csvRecord, headerLineItemOperation), S("RunInstances"))

\* readReportRow: panics (index out of range on parts[1]) when the interval
\* field holds no "/"; otherwise the ReportRow.
readReportRow(h, fields) ==
    LET r0 == [PayerAccountID |-> Field(h, fields, headerBillPayerAccountID),
               UsageAccountID |-> Field(h, fields, headerLineItemUsageAccountID),
               Region |-> Field(h, fields, headerProductRegionCode),
               InstanceType |-> Field(h, fields, headerProductInstanceType),
               UsageStartTime |-> mustParseDate(Field(h, fields, headerLineItemUsageStartDate)),
               UsageEndTime |-> mustParseDate(Field(h, fields, headerLineItemUsageEndDate)),
               Duration |-> 0]
        interval == Field(h, fields, headerIdentityTimeInterval)
        parts == Split(interval, "/")
    IN  IF Len(parts) < 2
        THEN [panic |-> TRUE, r |-> r0]
        ELSE LET r1 == [r0 EXCEPT !.UsageStartTime = mustParseDate(parts[1]),
                                  !.UsageEndTime = mustParseDate(parts[2])]
             IN  [panic |-> FALSE,
                  r |-> [r1 EXCEPT !.Duration = Sub(r1.UsageEndTime, r1.UsageStartTime)]]

\* fmt.Sprintf("%s_%s", r.Region, r.InstanceType)
Key(r) == r.Region \o S("_") \o r.InstanceType

\* The aggregation step with the duration of a repeated key replaced, not added.
AccumulateOverwrite(agg, r) ==
    MapPut(agg, Key(r),
           [Region |-> r.Region, InstanceType |-> r.InstanceType,
            Duration |-> r.Duration, EmissionGrams |-> Zero])

\* The aggregation step of analyse for the ReportRow r.
Accumulate(agg, r) ==
    LET key == Key(r)
    IN  IF key \in DOMAIN agg
        THEN MapPut(agg, key, [agg[key] EXCEPT !.Duration = DurationAdd(@, r.Duration)])
        ELSE MapPut(agg, key,
                    [Region |-> r.Region, InstanceType |-> r.InstanceType,
                     Duration |-> r.Duration, EmissionGrams |-> Zero])

----------------------------------------------------------------------------
(* Package cmd: the report phase of analyse.                               *)

\* The orders in which `for key := range aggregate` can visit the keys.
KeyOrders(agg) ==
    {o \in [1..Cardinality(DOMAIN agg) -> DOMAIN agg] :
        \A i, j \in DOMAIN o : o[i] = o[j] => i = j}

\* The loop over the buckets that appends a row for a bucket whose AWS call
\* failed too, with the 0 the call returned.
RECURSIVE ReportLoopNoSkip(_, _)
ReportLoopNoSkip(agg, order) ==
    IF order = <<>> THEN [rows |-> <<>>, total |-> Zero]
    ELSE LET n == Len(order)
             before == ReportLoopNoSkip(agg, SubSeq(order, 1, n - 1))
             b == agg[order[n]]
             result == AWS(b.Region, b.InstanceType, b.Duration)
         IN  [rows |-> Append(before.rows, [b EXCEPT !.EmissionGrams = result.val]),
              total |-> RatAdd(before.total, result.val)]

\* The loop over the buckets, visited in the given order: the rows appended
\* to aggregateReportRows and the total.
RECURSIVE ReportLoop(_, _)
ReportLoop(agg, order) ==
    IF order = <<>> THEN [rows |-> <<>>, total |-> Zero]
    ELSE LET n == Len(order)
             before == ReportLoop(agg, SubSeq(order, 1, n - 1))
             b == agg[order[n]]
             result == AWS(b.Region, b.InstanceType, b.Duration)
         IN  IF result.err # "nil" THEN before
             ELSE [rows |-> Append(before.rows,
                                   [Region |-> b.Region, InstanceType |-> b.InstanceType,
                                    Duration |-> b.Duration, EmissionGrams |-> result.val]),
                   total |-> RatAdd(before.total, result.val)]

\* The less function of each sort pass: < on the field the pass sorts by.
Less(field, a, b) == StrLess(a[field], b[field])

\* The rearrangements of the sequence s.
Rearrangements(s) ==
    {[i \in 1..Len(s) |-> s[f[i]]] : f \in Permutations(1..Len(s))}

\* sort.Slice(s, less) for the less function of a field: the slice in an
\* order in which no element is less than one before it. sort.Slice is not a
\* stable sort: elements of which neither is less than the other end up in
\* either order. (Go's implementation is an insertion sort, which keeps their
\* order, up to 12 elements and a quicksort, which does not, beyond; the model
\* takes the contract of sort.Slice at every length.)
SortSlice(s, field) ==
    {t \in Rearrangements(s) :
        \A i, j \in 1..Len(t) : i < j => ~Less(field, t[j], t[i])}

\* The two sort passes of analyse: by instance type, then by region.
SortPasses(rows) ==
    UNION {SortSlice(s1, "Region") : s1 \in SortSlice(rows, "InstanceType")}

\* One row of the table.
TableRow(row) ==
    <<row.Region, row.InstanceType, DurationString(row.Duration),
      formatGrams(row.EmissionGrams)>>

NoTable ==
    [printed |-> FALSE, lineCount |-> 0, range |-> <<0, 0, 0>>,
     rows |-> <<>>, footer |-> <<>>]

\* What analyse prints after the loop for the sorted rows and the total.
Render(count, earliest, latest, sorted, sum) ==
    [printed |-> TRUE,
     lineCount |-> count,
     range |-> <<earliest, latest, Sub(latest, earliest)>>,
     rows |-> [i \in 1..Len(sorted) |-> TableRow(sorted[i])],
     footer |-> <<S(""), S(""), S("Total"), formatGrams(sum)>>]

\* Everything after the row loop: the loop over the buckets in some map order,
\* the two sort passes and the table.
Report ==
    \E order \in KeyOrders(aggregate) :
        LET loop == ReportLoop(aggregate, order)
        IN  \E sorted \in SortPasses(loop.rows) :
                /\ aggregateReportRows' = sorted
                /\ total' = loop.total
                /\ table' = Render(lineCount, earliestDate, latestDate, sorted, loop.total)
                /\ pc' = "done"

----------------------------------------------------------------------------
(* The usage reports of the model.                                         *)

\* A record of the report with its fields in the order of StandardHeader.
\* Every record has as many fields as the first one: csv.Reader returns
\* ErrFieldCount, a read error, for a record of another length.
Record(interval, type, start, end, code, op, inst, family, region) ==
    <<interval, S("123456789012"), S("123456789012"), type, start, end, code, op,
      inst, family, region>>

StandardHeader ==
    <<headerIdentityTimeInterval, headerBillPayerAccountID, headerLineItemUsageAccountID,
      headerLineItemLineItemType, headerLineItemUsageStartDate, headerLineItemUsageEndDate,
      headerLineItemProductCode, headerLineItemOperation, headerProductInstanceType,
      headerProductProductFamily, headerProductRegionCode>>

\* The first records of the model: the standard header, the header with the
\* region and instance type columns exchanged, and the header that does not
\* name the usage account column.
HeaderPool ==
    { StandardHeader,
      [StandardHeader EXCEPT ![9] = headerProductRegionCode,
                             ![11] = headerProductInstanceType],
      [StandardHeader EXCEPT ![3] = S("unknown")] }

T0 == "2022-08-01T00:00:00Z"
T1 == "2022-08-01T01:00:00Z"
T2 == "2022-08-01T02:30:00Z"

\* An EC2 instance usage row of one region, instance type and interval.
UsageRow(region, inst, interval) ==
    Record(interval, S("Usage"), S(T0), S(T1), S("AmazonEC2"), S("RunInstances"),
           inst, S("Compute Instance"), region)

\* The data rows of the model.
RowPool ==
    { \* rows of known regions and instance types
      UsageRow(S("eu-west-1"), S("t2.micro"), <<T0, "/", T1>>),
      UsageRow(S("eu-west-1"), S("a1.medium"), <<T1, "/", T2>>),
      UsageRow(S("eu-central-1"), S("t2.micro"), <<T0, "/", T2>>),
      Record(<<T1, "/", T2>>, S("Usage"), S("garbage"), S(T0), S("AmazonEC2"),
             <<"RunInstances", ":0002">>, S("t2.micro"), S("Compute Instance"),
             S("eu-west-1")),
      \* a region and an instance type the reference tables do not hold
      UsageRow(S("xx-nowhere-9"), S("t2.micro"), <<T0, "/", T1>>),
      UsageRow(S("eu-west-1"), S("z9.huge"), <<T0, "/", T1>>),
      \* two (region, instance type) pairs that give the same key
      UsageRow(<<"ab", "_", "cd">>, S("ef"), <<T0, "/", T1>>),
      UsageRow(S("ab"), <<"cd", "_", "ef">>, <<T1, "/", T2>>),
      \* intervals: end before start, unparsable start, no separator
      UsageRow(S("eu-west-1"), S("t2.micro"), <<T1, "/", T0>>),
      UsageRow(S("eu-west-1"), S("t2.micro"), <<"garbage", "/", T1>>),
      UsageRow(S("eu-west-1"), S("t2.micro"), <<"garbage">>),
      \* an interval longer than the largest Duration
      UsageRow(S("eu-west-1"), S("t2.micro"), <<"0001-01-01T00:00:00Z", "/", T1>>),
      \* an interval after the initial value of earliestDate
      UsageRow(S("eu-west-1"), S("t2.micro"),
               <<"2101-01-01T00:00:00Z", "/", "2101-01-01T01:00:00Z">>),
      \* rows that fail one test of the filter each
      Record(<<T0, "/", T1>>, S("Tax"), S(T0), S(T1), S("AmazonEC2"),
             S("RunInstances"), S("t2.micro"), S("Compute Instance"), S("eu-west-1")),
      Record(<<T0, "/", T1>>, S("Usage"), S(T0), S(T1), S("AmazonS3"),
             S("RunInstances"), S("t2.micro"), S("Compute Instance"), S("eu-west-1")),
      Record(<<T0, "/", T1>>, S("Usage"), S(T0), S(T1), S("AmazonEC2"),
             S("RunInstances"), S("t2.micro"), S("Storage"), S("eu-west-1")),
      Record(<<T0, "/", T1>>, S("Usage"), S(T0), S(T1), S("AmazonEC2"),
             S("CreateVolume"), S("t2.micro"), S("Compute Instance"), S("eu-west-1")),
      Record(<<T0, "/", T1>>, S("Usage"), S(T0), S(T1), S("AmazonEC2"),
             <<"Stop", "RunInstances">>, S("t2.micro"), S("Compute Instance"),
             S("eu-west-1")) }

----------------------------------------------------------------------------
(* The run of analyse.                                                     *)

\* package footprint's init(): both tables loaded, or log.Fatal.
TablesLoaded ==
    /\ readEC2Instances.err = "nil"
    /\ readAWSRegions.err = "nil"
    /\ ec2instances = readEC2Instances.m
    /\ awsRegions = readAWSRegions.m

NoCall == [fn |-> "none", args |-> <<>>]

NoReturn == [val |-> Zero, err |-> "nil", text |-> <<>>]

\* analyse up to its row loop.
Init ==
    /\ TablesLoaded
    /\ call = NoCall
    /\ ret = NoReturn
    /\ pc = "reading"
    /\ processedHeaders = FALSE
    /\ headers = EmptyMap
    /\ lineCount = 0
    /\ earliestDate = mustParseDate(S("2100-12-31T23:59:59Z"))
    /\ latestDate = mustParseDate(S("0000-00-00T00:00:00Z"))
    /\ aggregate = EmptyMap
    /\ records = <<>>
    /\ readErr = FALSE
    /\ aggregateReportRows = <<>>
    /\ total = Zero
    /\ table = NoTable

\* One pass of the row loop for the record fcsv.Read returned, with h the
\* header map after the header block.
LoopBody(csvRecord, h) ==
    /\ records' = Append(records, csvRecord)
    /\ processedHeaders' = TRUE
    /\ headers' = h
    /\ UNCHANGED <<ec2instances, awsRegions, call, ret, readErr,
                   aggregateReportRows, total, table>>
    /\ IF ~Qualifies(h, csvRecord)
       THEN UNCHANGED <<pc, lineCount, aggregate, earliestDate, latestDate>>
       ELSE LET read == readReportRow(h, csvRecord)
                r == read.r
            IN  /\ lineCount' = lineCount + 1
                /\ IF read.panic
                   THEN /\ pc' = "panic"
                        /\ UNCHANGED <<aggregate, earliestDate, latestDate>>
                   ELSE /\ pc' = pc
                        /\ aggregate' = Accumulate(aggregate, r)
                        /\ earliestDate' = IF r.UsageStartTime < earliestDate
                                           THEN r.UsageStartTime ELSE earliestDate
                        /\ latestDate' = IF r.UsageEndTime > latestDate
                                         THEN r.UsageEndTime ELSE latestDate

\* fcsv.Read returns the first record: the header block, then the loop body.
ReadHeader ==
    /\ pc = "reading"
    /\ ~processedHeaders
    /\ \E csvRecord \in HeaderPool : LoopBody(csvRecord, BuildHeaders(csvRecord))

\* fcsv.Read returns a later record.
ReadRow ==
    /\ pc = "reading"
    /\ processedHeaders
    /\ Len(records) < MaxRows
    /\ \E csvRecord \in RowPool : LoopBody(csvRecord, headers)

\* fcsv.Read returns io.EOF: break, then the report.
ReadEOF ==
    /\ pc = "reading"
    /\ Report
    /\ UNCHANGED <<ec2instances, awsRegions, call, ret, processedHeaders, headers,
                   lineCount, earliestDate, latestDate, aggregate, records, readErr>>

\* ReadError with `continue` in the place of `break`: the loop goes on.
ReadErrorContinue ==
    /\ pc = "reading"
    /\ ~readErr
    /\ readErr' = TRUE
    /\ UNCHANGED <<ec2instances, awsRegions, call, ret, pc, processedHeaders, headers,
                   lineCount, earliestDate, latestDate, aggregate, records,
                   aggregateReportRows, total, table>>

\* fcsv.Read returns another error (a structural CSV error): the error is
\* printed, break, then the report.
ReadError ==
    /\ pc = "reading"
    /\ readErr' = TRUE
    /\ Report
    /\ UNCHANGED <<ec2instances, awsRegions, call, ret, processedHeaders, headers,
                   lineCount, earliestDate, latestDate, aggregate, records>>

Next ==
    \/ ReadHeader
    \/ ReadRow
    \/ ReadEOF
    \/ ReadError

Spec == Init /\ [][Next]_vars

----------------------------------------------------------------------------
(* Calls of package footprint's functions, one at a time, on the loaded    *)
(* tables.                                                                 *)

AnalyseIdle ==
    /\ pc = "idle"
    /\ processedHeaders = FALSE
    /\ headers = EmptyMap
    /\ lineCount = 0
    /\ earliestDate = ZeroTime
    /\ latestDate = ZeroTime
    /\ aggregate = EmptyMap
    /\ records = <<>>
    /\ readErr = FALSE
    /\ aggregateReportRows = <<>>
    /\ total = Zero
    /\ table = NoTable

analyseVars ==
    <<pc, processedHeaders, headers, lineCount, earliestDate, latestDate, aggregate,
      records, readErr, aggregateReportRows, total, table>>

RegionInputs ==
    {S("eu-west-1"), S("eu-central-1"), S("ap-southeast-2"), S("unknown"),
     <<"ab", "_", "cd">>, <<>>}

InstanceInputs ==
    {S("t2.micro"), S("a1.medium"), S("unknown"), S("z9.huge"), <<>>}

DurationInputs ==
    {MinDuration, -MinutesPerHour, 0, 1, 30, MinutesPerHour, 90, 2 * MinutesPerHour,
     MaxDuration}

InitFootprint ==
    /\ TablesLoaded
    /\ call = NoCall
    /\ ret = NoReturn
    /\ AnalyseIdle

Returned(result) == [val |-> result.val, err |-> result.err, text |-> <<>>]

\* CallPowerAt50Percent with a lookup that stores the zero-value EC2Instance
\* under an instance type the table does not hold.
CallPowerAt50PercentStoring ==
    \E t \in InstanceInputs :
        /\ call' = [fn |-> "PowerAt50Percent", args |-> <<t>>]
        /\ ret' = Returned(PowerAt50Percent(t))
        /\ ec2instances' = IF t \in DOMAIN ec2instances THEN ec2instances
                           ELSE MapPut(ec2instances, t,
                                       [PowerAt50Percent |-> Zero,
                                        ManufacturingEmissionsHourly |-> Zero])
        /\ UNCHANGED <<awsRegions, analyseVars>>

CallPowerAt50Percent ==
    \E t \in InstanceInputs :
        /\ call' = [fn |-> "PowerAt50Percent", args |-> <<t>>]
        /\ ret' = Returned(PowerAt50Percent(t))
        /\ UNCHANGED <<ec2instances, awsRegions, analyseVars>>

CallManufacturingEmissions ==
    \E t \in InstanceInputs :
        /\ call' = [fn |-> "ManufacturingEmissions", args |-> <<t>>]
        /\ ret' = Returned(ManufacturingEmissions(t))
        /\ UNCHANGED <<ec2instances, awsRegions, analyseVars>>

CallCarbonIntensity ==
    \E c \in RegionInputs :
        /\ call' = [fn |-> "CarbonIntensity", args |-> <<c>>]
        /\ ret' = Returned(CarbonIntensity(c))
        /\ UNCHANGED <<ec2instances, awsRegions, analyseVars>>

CallPUE ==
    \E c \in RegionInputs :
        /\ call' = [fn |-> "PUE", args |-> <<c>>]
        /\ ret' = Returned(PUE(c))
        /\ UNCHANGED <<ec2instances, awsRegions, analyseVars>>

CallAWS ==
    \E c \in RegionInputs, t \in InstanceInputs, d \in DurationInputs :
        /\ call' = [fn |-> "AWS", args |-> <<c, t, d>>]
        /\ ret' = Returned(AWS(c, t, d))
        /\ UNCHANGED <<ec2instances, awsRegions, analyseVars>>

NextFootprint ==
    \/ CallPowerAt50Percent
    \/ CallManufacturingEmissions
    \/ CallCarbonIntensity
    \/ CallPUE
    \/ CallAWS

SpecFootprint == InitFootprint /\ [][NextFootprint]_vars

----------------------------------------------------------------------------
(* The process after init(): calls of package footprint's functions, then  *)
(* one run of analyse.                                                     *)

InitProgram == InitFootprint

\* A call of one of package footprint's functions before the run of analyse.
LibraryCall ==
    /\ pc = "idle"
    /\ NextFootprint

\* analyse is entered: its locals as in Init, up to its row loop.
RunAnalyse ==
    /\ pc = "idle"
    /\ call' = NoCall
    /\ ret' = NoReturn
    /\ pc' = "reading"
    /\ processedHeaders' = FALSE
    /\ headers' = EmptyMap
    /\ lineCount' = 0
    /\ earliestDate' = mustParseDate(S("2100-12-31T23:59:59Z"))
    /\ latestDate' = mustParseDate(S("0000-00-00T00:00:00Z"))
    /\ aggregate' = EmptyMap
    /\ records' = <<>>
    /\ readErr' = FALSE
    /\ aggregateReportRows' = <<>>
    /\ total' = Zero
    /\ table' = NoTable
    /\ UNCHANGED <<ec2instances, awsRegions>>

NextProgram ==
    \/ LibraryCall
    \/ RunAnalyse
    \/ ReadHeader
    \/ ReadRow
    \/ ReadEOF
    \/ ReadError

SpecProgram == InitProgram /\ [][NextProgram]_vars

----------------------------------------------------------------------------
(* Calls of formatGrams.                                                   *)

\* How far around each amount the amounts of GramInputs reach.
GramSpread == 4

\* Amounts in grams around 0, the two thresholds and the amounts of the
\* examples, in whole, half and tenth grams.
GramInputs ==
    {Rat(b * d + j, d) : b \in {0, 57, 1000, 2758, 1000 * 1000, 2 * 1000 * 1000},
                         j \in (-GramSpread)..GramSpread,
                         d \in {1, 2, 10}}

InitFormat ==
    /\ TablesLoaded
    /\ call = NoCall
    /\ ret = NoReturn
    /\ AnalyseIdle

CallFormatGrams ==
    \E g \in GramInputs :
        /\ call' = [fn |-> "formatGrams", args |-> <<g>>]
        /\ ret' = [val |-> Zero, err |-> "nil", text |-> formatGrams(g)]
        /\ UNCHANGED <<ec2instances, awsRegions, analyseVars>>

NextFormat == CallFormatGrams

SpecFormat == InitFormat /\ [][NextFormat]_vars

----------------------------------------------------------------------------
(* Properties of package footprint, under SpecFootprint.                   *)

\* The AWS call being made is for a region and an instance type of the tables.
KnownAWSCall ==
    /\ call.fn = "AWS"
    /\ call.args[1] \in DOMAIN awsRegions
    /\ call.args[2] \in DOMAIN ec2instances

\* ((PowerAt50Percent/1000) * PUE * CarbonIntensity + ManufacturingEmissionsHourly)
\* per hour as one fraction, for the table entries e and g, times the hours of d.
FormulaValue(e, g, d) ==
    LET p == e.PowerAt50Percent
        m == e.ManufacturingEmissionsHourly
        u == g.PUE
        c == g.CarbonIntensity
    IN  RatMul(Rat(p.num * u.num * c.num * m.den + m.num * p.den * 1000 * u.den * c.den,
                   p.den * 1000 * u.den * c.den * m.den),
               Rat(d, MinutesPerHour))

\* C1: for a region of the region table, an instance type of the instance
\* table and any duration d, AWS returns a nil error and
\* ((PowerAt50Percent/1000) * PUE * CarbonIntensity + ManufacturingEmissionsHourly)
\* * hours(d); the value is 0 when d is 0.
C1_AWSFormula ==
    KnownAWSCall =>
        /\ ret.err = "nil"
        /\ ret.val = FormulaValue(ec2instances[call.args[2]], awsRegions[call.args[1]],
                                  call.args[3])
        /\ call.args[3] = 0 => ret.val = Zero

\* C1 witness: AWS("eu-west-1", "t2.micro", 1 hour) has returned 2.75808.
C1_Witness ==
    /\ call = [fn |-> "AWS", args |-> <<S("eu-west-1"), S("t2.micro"), MinutesPerHour>>]
    /\ ret.err = "nil"
    /\ ret.val = Rat(275808, 100000)

\* The call being made is a lookup or AWS with a key its table does not hold.
AbsentKeyCall ==
    \/ /\ call.fn \in {"CarbonIntensity", "PUE"}
       /\ call.args[1] \notin DOMAIN awsRegions
    \/ /\ call.fn \in {"PowerAt50Percent", "ManufacturingEmissions"}
       /\ call.args[1] \notin DOMAIN ec2instances
    \/ /\ call.fn = "AWS"
       /\ \/ call.args[1] \notin DOMAIN awsRegions
          \/ call.args[2] \notin DOMAIN ec2instances

\* C2: a lookup of a key absent from its table, and AWS with an absent region
\* or an absent instance type, return a non-nil error and the value 0, for
\* every duration.
C2_UnknownKeyFails ==
    AbsentKeyCall => (ret.err # "nil" /\ ret.val = Zero)

\* C2 witness: AWS of a known region and an unknown instance type, for one
\* hour, has returned the instance type error.
C2_Witness ==
    /\ call = [fn |-> "AWS", args |-> <<S("eu-west-1"), S("unknown"), MinutesPerHour>>]
    /\ ret.err = "unknown instance type"
    /\ ret.val = Zero

----------------------------------------------------------------------------
(* Properties of formatGrams, under SpecFormat.                            *)

\* The unit of a formatted amount: its last lexeme.
UnitOf(text) == text[Len(text)]

\* The examples of the formatting: 57 g, 2758 g and 2,000,000 g.
FormatExamples ==
    /\ formatGrams(Rat(57, 1)) = <<"57", " gCO2e">>
    /\ formatGrams(Rat(2758, 1)) = <<"2", ".", "8", " kgCO2e">>
    /\ formatGrams(Rat(2 * 1000 * 1000, 1)) = <<"2", ".", "0", " MTCO2e">>

\* C8 as claimed: grams below 1000, kilograms from 1000 to below 1,000,000,
\* metric tons from 1,000,000 on.
C8_Original ==
    call.fn = "formatGrams" =>
        LET g == call.args[1]
        IN  UnitOf(ret.text) =
                IF ~RatAtLeastInt(g, 1000) THEN " gCO2e"
                ELSE IF ~RatAtLeastInt(g, 1000 * 1000) THEN " kgCO2e"
                ELSE " MTCO2e"

\* C8: formatGrams(g) is in grams (%.0f of g) if g <= 1000, in kilograms
\* (%.1f of g/1000) if 1000 < g <= 1,000,000, and in metric tons (%.1f of
\* g/1,000,000) if g > 1,000,000.
C8_UnitByMagnitude ==
    call.fn = "formatGrams" =>
        LET g == call.args[1]
        IN  /\ ~RatGreaterInt(g, 1000) =>
                ret.text = Sprintf0(g) \o <<" gCO2e">>
            /\ (RatGreaterInt(g, 1000) /\ ~RatGreaterInt(g, 1000 * 1000)) =>
                ret.text = Sprintf1(g, 1000) \o <<" kgCO2e">>
            /\ RatGreaterInt(g, 1000 * 1000) =>
                ret.text = Sprintf1(g, 1000 * 1000) \o <<" MTCO2e">>
            /\ FormatExamples

\* C8 witness: formatGrams(1000) has returned "1000 gCO2e".
C8_Witness ==
    /\ call = [fn |-> "formatGrams", args |-> <<Rat(1000, 1)>>]
    /\ ret.text = <<"1000", " gCO2e">>

----------------------------------------------------------------------------
(* Properties of analyse, under Spec.                                      *)

\* The four tests of the filter, on the columns the header map names.
PassesFilter(h, csvRecord) ==
    /\ csvRecord[HeaderIndex(h, S("lineItem/LineItemType")) + 1] = <<"Usage">>
    /\ csvRecord[HeaderIndex(h, S("lineItem/ProductCode")) + 1] = <<"AmazonEC2">>
    /\ csvRecord[HeaderIndex(h, S("product/productFamily")) + 1] = <<"Compute Instance">>
    /\ LET op == csvRecord[HeaderIndex(h, S("lineItem/Operation")) + 1]
       IN  op # <<>> /\ op[1] = "RunInstances"

\* The step reads one more record, and that record fails a test of the filter.
ReadsFailingRecord ==
    /\ Len(records') = Len(records) + 1
    /\ ~PassesFilter(headers', records'[Len(records')])

\* C3: processing a record that fails at least one of the four tests leaves
\* the qualifying-row count, every bucket of the aggregate and the
\* earliest/latest bounds as they were.
C3_FailingRowChangesNothing ==
    [][ReadsFailingRecord =>
            /\ lineCount' = lineCount
            /\ aggregate' = aggregate
            /\ earliestDate' = earliestDate
            /\ latestDate' = latestDate]_vars

\* C3 witness: a row that passes the filter has been counted, and the row read
\* after it, which fails the product family test only, has left the count,
\* the bucket and the bounds of the first row in place.
C3_Witness ==
    /\ pc = "reading"
    /\ Len(records) = 3
    /\ headers = BuildHeaders(StandardHeader)
    /\ records[2] = UsageRow(S("eu-west-1"), S("t2.micro"), <<T0, "/", T1>>)
    /\ records[3][10] = S("Storage")
    /\ lineCount = 1
    /\ DOMAIN aggregate = {<<"eu-west-1", "_", "t2.micro">>}
    /\ aggregate[<<"eu-west-1", "_", "t2.micro">>].Duration = MinutesPerHour
    /\ earliestDate = TimeOf[T0]
    /\ latestDate = TimeOf[T1]

\* The records read so far that pass the filter, by their position.
QualifyingRecords ==
    {i \in 1..Len(records) : PassesFilter(headers, records[i])}

\* The ReportRow of the record at position i.
RowAt(i) == readReportRow(headers, records[i]).r

\* The (region, instance type) pair of the record at position i.
PairAt(i) == <<RowAt(i).Region, RowAt(i).InstanceType>>

\* The sum of the durations of the records at the positions of I, as
\* time.Duration adds.
RECURSIVE SumDurations(_)
SumDurations(I) ==
    IF I = {} THEN 0
    ELSE LET i == CHOOSE x \in I : TRUE
         IN  DurationAdd(SumDurations(I \ {i}), RowAt(i).Duration)

\* The buckets of the aggregate that hold the pair p.
BucketsOf(p) ==
    {k \in DOMAIN aggregate :
        aggregate[k].Region = p[1] /\ aggregate[k].InstanceType = p[2]}

\* C4 as claimed: the aggregate holds exactly one bucket for each distinct
\* (region, instance type) pair of a qualifying row, and the bucket's Duration is
\* the sum of the durations of exactly the qualifying rows of that pair.
C4_Original ==
    pc # "panic" =>
        LET pairs == {PairAt(i) : i \in QualifyingRecords}
        IN  /\ Cardinality(DOMAIN aggregate) = Cardinality(pairs)
            /\ \A p \in pairs :
                /\ Cardinality(BucketsOf(p)) = 1
                /\ \A k \in BucketsOf(p) :
                      aggregate[k].Duration =
                          SumDurations({i \in QualifyingRecords : PairAt(i) = p})


\* The aggregate after the row loop has processed the records recs under the
\* header map h.
RECURSIVE AggregateAfter(_, _)
AggregateAfter(h, recs) ==
    IF recs = <<>> THEN EmptyMap
    ELSE LET n == Len(recs)
             before == AggregateAfter(h, SubSeq(recs, 1, n - 1))
         IN  IF PassesFilter(h, recs[n]) /\ ~readReportRow(h, recs[n]).panic
             THEN Accumulate(before, readReportRow(h, recs[n]).r)
             ELSE before

\* The elements of the sequence s.
Range(s) == {s[i] : i \in 1..Len(s)}

\* The rows and the total the report phase gives for the aggregate agg.
ReportOf(agg) == ReportLoop(agg, CHOOSE o \in KeyOrders(agg) : TRUE)

KnownBucket(b) ==
    /\ b.Region \in DOMAIN awsRegions
    /\ b.InstanceType \in DOMAIN ec2instances

\* The positions of aggregateReportRows that report the bucket b.
ReportedAt(b) ==
    {i \in 1..Len(aggregateReportRows) :
        /\ aggregateReportRows[i].Region = b.Region
        /\ aggregateReportRows[i].InstanceType = b.InstanceType
        /\ aggregateReportRows[i].Duration = b.Duration}

\* The sum of the emissions of the rows of s.
RECURSIVE SumEmissions(_)
SumEmissions(s) ==
    IF s = <<>> THEN Zero
    ELSE RatAdd(SumEmissions(Tail(s)), s[1].EmissionGrams)

\* C6: in a finished run, a bucket of an unknown region or instance type is in
\* no reported row, every other bucket is in exactly one, with the emissions
\* AWS gives for it, no other row is reported, the table holds one row for
\* each reported row, and the total is the sum of the emissions of the
\* reported rows.
C6_UnknownBucketsSkipped ==
    pc = "done" =>
        /\ \A k \in DOMAIN aggregate :
              LET b == aggregate[k]
              IN  IF KnownBucket(b)
                  THEN /\ Cardinality(ReportedAt(b)) = 1
                       /\ \A i \in ReportedAt(b) :
                             aggregateReportRows[i].EmissionGrams
                                 = FormulaValue(ec2instances[b.InstanceType],
                                                awsRegions[b.Region], b.Duration)
                  ELSE ReportedAt(b) = {}
        /\ Len(aggregateReportRows)
               = Cardinality({k \in DOMAIN aggregate : KnownBucket(aggregate[k])})
        /\ table.printed
        /\ Len(table.rows) = Len(aggregateReportRows)
        /\ total = SumEmissions(aggregateReportRows)

\* C6 witness: a finished run with a bucket of an unknown instance type, left
\* out, and a bucket of a known region and instance type, reported.
C6_Witness ==
    /\ pc = "done"
    /\ DOMAIN aggregate = {<<"eu-west-1", "_", "z9.huge">>, <<"eu-west-1", "_", "t2.micro">>}
    /\ Len(aggregateReportRows) = 1
    /\ aggregateReportRows[1].InstanceType = S("t2.micro")
    /\ total = aggregateReportRows[1].EmissionGrams
    /\ total # Zero

\* C7 as claimed: the rows handed to the table are in ascending order of
\* region, and rows of one region in ascending order of instance type.
C7_Original ==
    pc = "done" =>
        \A i, j \in 1..Len(table.rows) :
            i < j =>
                \/ StrLess(table.rows[i][1], table.rows[j][1])
                \/ /\ table.rows[i][1] = table.rows[j][1]
                   /\ ~StrLess(table.rows[j][2], table.rows[i][2])

\* C9 as claimed: after a read error no report is produced.
C9_Original == readErr => ~table.printed

\* C9: when fcsv.Read fails with a structural error, the row loop is left (no
\* further record is read) and the report is still produced from the records
\* read before the error: their qualifying-row count, their bounds, one table
\* row for each of their buckets of a known region and instance type.
C9_ErrorEndsLoopThenReports ==
    readErr =>
        /\ pc = "done"
        /\ table.printed
        /\ table.lineCount = Cardinality(QualifyingRecords)
        /\ aggregate = AggregateAfter(headers, records)
        /\ table.range = <<earliestDate, latestDate, Sub(latestDate, earliestDate)>>
        /\ Len(table.rows)
               = Cardinality({k \in DOMAIN aggregate : KnownBucket(aggregate[k])})

\* C9 witness: a read error after a header and one qualifying row of a known
\* region and instance type, with the report of that row printed.
C9_Witness ==
    /\ readErr
    /\ Len(records) = 2
    /\ table.printed
    /\ table.lineCount = 1
    /\ Len(table.rows) = 1
    /\ table.footer[4] = table.rows[1][4]

\* C10 as claimed: for every qualifying row readReportRow returns a record and
\* the run is not aborted, and Duration is end minus start of the timestamps
\* of the interval field.
C10_Original ==
    /\ pc # "panic"
    /\ \A i \in QualifyingRecords :
          /\ ~readReportRow(headers, records[i]).panic
          /\ RowAt(i).Duration = RowAt(i).UsageEndTime - RowAt(i).UsageStartTime

\* The qualifying records readReportRow returned a ReportRow for.
ReadRecords ==
    {i \in QualifyingRecords : ~readReportRow(headers, records[i]).panic}

\* C11 as claimed: every ReportRow readReportRow returns for a qualifying row
\* has Duration >= 0, and every bucket's accumulated Duration is >= 0.
C11_Original ==
    /\ \A i \in ReadRecords : RowAt(i).Duration >= 0
    /\ \A k \in DOMAIN aggregate : aggregate[k].Duration >= 0

\* C12 as claimed: once a qualifying row has been processed, earliestDate is
\* the smallest UsageStartTime and latestDate the largest UsageEndTime of the
\* qualifying rows processed so far.
C12_Original ==
    (pc # "panic" /\ ReadRecords # {}) =>
        /\ \E i \in ReadRecords : earliestDate = RowAt(i).UsageStartTime
        /\ \A i \in ReadRecords : earliestDate <= RowAt(i).UsageStartTime
        /\ \E i \in ReadRecords : latestDate = RowAt(i).UsageEndTime
        /\ \A i \in ReadRecords : latestDate >= RowAt(i).UsageEndTime

----------------------------------------------------------------------------
(* Properties of the two tables, under SpecProgram.                        *)

\* The entry readEC2Instances builds from one record of the instance table.
EC2InstanceOf(record) ==
    [PowerAt50Percent |-> ParseFloat(record[30]).val,
     ManufacturingEmissionsHourly |-> ParseFloat(record[37]).val]

\* The entry readAWSRegions builds from one record of the region table.
AWSRegionOf(record) ==
    [CarbonIntensity |-> ParseFloat(record[5]).val, PUE |-> ParseFloat(record[7]).val]

\* C13: at every point after init() -- whatever lookups, AWS calls and steps of
\* an analyse run have happened -- the two tables hold exactly the entries
\* loaded by init(): one entry for the key of each data row, both of its
\* fields parsed from one data row with that key, nothing for any other key,
\* and in particular nothing for the key of the header row.
C13_TablesNeverChange ==
    /\ DOMAIN ec2instances
           = {ec2instancesCSV[n][1] : n \in 2..Len(ec2instancesCSV)}
    /\ \A t \in DOMAIN ec2instances :
           \E n \in 2..Len(ec2instancesCSV) :
               /\ ec2instancesCSV[n][1] = t
               /\ ec2instances[t] = EC2InstanceOf(ec2instancesCSV[n])
    /\ ec2instancesCSV[1][1] \notin DOMAIN ec2instances
    /\ DOMAIN awsRegions = {awsRegionsCSV[n][1] : n \in 2..Len(awsRegionsCSV)}
    /\ \A c \in DOMAIN awsRegions :
           \E n \in 2..Len(awsRegionsCSV) :
               /\ awsRegionsCSV[n][1] = c
               /\ awsRegions[c] = AWSRegionOf(awsRegionsCSV[n])
    /\ awsRegionsCSV[1][1] \notin DOMAIN awsRegions

\* C13 witness: a run of analyse has printed a report with a table row, whose
\* emissions come from AWS and so from all four lookups, and both tables still
\* hold the entries of their data rows.
C13_Witness ==
    /\ pc = "done"
    /\ Len(table.rows) >= 1
    /\ total # Zero
    /\ ec2instances[S("t2.micro")] = EC2InstanceOf(ec2instancesCSV[2])
    /\ awsRegions[S("eu-west-1")] = AWSRegionOf(awsRegionsCSV[2])
    /\ Cardinality(DOMAIN ec2instances) = Len(ec2instancesCSV) - 1
    /\ Cardinality(DOMAIN awsRegions) = Len(awsRegionsCSV) - 1

----------------------------------------------------------------------------
(* The run of analyse on reports with any first record.                    *)

\* How many records follow the first one.
MaxFollowingRows == 1

\* First records: the standard header with, in column 0 and in the columns of
\* the four names the filter looks up, either the name, or a value the filter
\* tests for, or another name of the report (a name given twice), or a name
\* analyse does not know (the name is missing).
AnyHeaderPool ==
    { [StandardHeader EXCEPT ![1] = c0, ![4] = type, ![7] = code, ![8] = op,
                             ![10] = family] :
          c0 \in {headerIdentityTimeInterval, S("Usage"), S("AmazonEC2"),
                  headerLineItemLineItemType},
          type \in {headerLineItemLineItemType, S("Usage"), S("unknown")},
          code \in {headerLineItemProductCode, S("AmazonEC2"), S("unknown"),
                    headerLineItemLineItemType},
          op \in {headerLineItemOperation, S("RunInstances")},
          family \in {headerProductProductFamily, S("Compute Instance")} }

\* fcsv.Read returns the first record: the header block, then the loop body.
ReadAnyHeader ==
    /\ pc = "reading"
    /\ ~processedHeaders
    /\ \E csvRecord \in AnyHeaderPool : LoopBody(csvRecord, BuildHeaders(csvRecord))

\* fcsv.Read returns a later record.
ReadFollowingRow ==
    /\ pc = "reading"
    /\ processedHeaders
    /\ Len(records) < 1 + MaxFollowingRows
    /\ \E csvRecord \in RowPool : LoopBody(csvRecord, headers)

NextAnyHeader ==
    \/ ReadAnyHeader
    \/ ReadFollowingRow
    \/ ReadEOF
    \/ ReadError

SpecAnyHeader == Init /\ [][NextAnyHeader]_vars

\* C14: the first record goes through the filter and fails it, whatever it
\* holds: after it alone has been read nothing is counted, there is no bucket
\* and the bounds are the initial ones; later it is never among the counted
\* records, and no bucket holds its region and instance type fields unless a
\* later counted record has them.
C14_HeaderNeverCounted ==
    /\ Len(records) = 1 =>
           /\ pc # "panic"
           /\ lineCount = 0
           /\ aggregate = EmptyMap
           /\ earliestDate = mustParseDate(S("2100-12-31T23:59:59Z"))
           /\ latestDate = mustParseDate(S("0000-00-00T00:00:00Z"))
    /\ Len(records) >= 1 =>
           /\ ~Qualifies(headers, records[1])
           /\ lineCount <= Len(records) - 1
           /\ \A k \in DOMAIN aggregate :
                  \E i \in 2..Len(records) :
                      /\ Qualifies(headers, records[i])
                      /\ Key(RowAt(i)) = k

\* C14 witness: the first record holds "Usage" in column 0 and does not name
\* the line item type column, so the first test of the filter reads column 0
\* and passes; the record has been processed and nothing is counted.
C14_Witness ==
    /\ Len(records) = 1
    /\ processedHeaders
    /\ records[1][1] = S("Usage")
    /\ headerLineItemLineItemType \notin DOMAIN headers
    /\ Field(headers, records[1], headerLineItemLineItemType) = S("Usage")
    /\ lineCount = 0
    /\ aggregate = EmptyMap

----------------------------------------------------------------------------
(* The accumulated duration of a bucket, under Spec.                       *)

\* The records read so far whose ReportRow has the key k.
RecordsOfKey(k) == {i \in ReadRecords : Key(RowAt(i)) = k}

\* The sum of the durations of the records at the positions of I, as integers
\* add.
RECURSIVE MathSumDurations(_)
MathSumDurations(I) ==
    IF I = {} THEN 0
    ELSE LET i == CHOOSE x \in I : TRUE
         IN  MathSumDurations(I \ {i}) + RowAt(i).Duration

\* C15 as claimed: the Duration of a bucket whose records all have a
\* non-negative duration is the mathematical sum of these durations, and is
\* not smaller than any one of them.
C15_Original ==
    \A k \in DOMAIN aggregate :
        (\A i \in RecordsOfKey(k) : RowAt(i).Duration >= 0) =>
            /\ aggregate[k].Duration = MathSumDurations(RecordsOfKey(k))
            /\ \A i \in RecordsOfKey(k) : aggregate[k].Duration >= RowAt(i).Duration

====
